---------------------------- MODULE Spec2Model ----------------------------
(* Eco-BinGo backend (src/backend.py): the route optimisation engine          *)
(* (calculate_distance, optimize_route_tsp, the evaluation in optimize_route) *)
(* and the request handlers and threads that share the truck and dustbins     *)
(* registries with it.                                                        *)
(*                                                                            *)
(* Units: coordinates are in 1e-4 degrees, distances in metres.  Python's     *)
(* None is the empty sequence, a present value x is <<x>>.                    *)
(*                                                                            *)
(* Left out: the truck's timestamp and a bin's name, location and status      *)
(* (nothing in the route computation reads them), and POST/DELETE             *)
(* /api/dustbins (a bin they add has fill 0 and only bin "1" is ever filled   *)
(* by the sensor thread, so the server itself never has a second eligible     *)
(* bin).  Longer waypoint lists are covered by SpecCore, whose registries     *)
(* and arguments are inputs drawn from bounded sets.                          *)
EXTENDS Integers, Sequences, FiniteSets, TLC

\* ------------------------------------------------------------------ bounds
\* Longest waypoint list handed to the solver, and largest dustbins registry.
MaxBins == 3

\* --------------------------------------------------------- program constants
\* optimal_fuel = optimal_distance / 12
FuelRate == 12
\* fuel_cost = optimal_fuel * 100
CostPerFuel == 100
\* b["fill"] >= 50
CollectThreshold == 50

None == <<>>
Some(x) == <<x>>

\* ------------------------------------------------------------ coordinates
\* Latitudes and longitudes of the model, in 1e-4 degrees: bin "1" of the
\* registry (19.2461, 83.4462), add_dustbin's default (19.31, 84.02) and one
\* more point (19.30, 83.90).
Lats == <<192461, 193000, 193100>>
Lons == <<834462, 839000, 840200>>

LatSet == {Lats[k] : k \in DOMAIN Lats}
LonSet == {Lons[k] : k \in DOMAIN Lons}

PointIndex(lat, lon) ==
    LET la == CHOOSE k \in DOMAIN Lats : Lats[k] = lat
        lo == CHOOSE k \in DOMAIN Lons : Lons[k] = lon
    IN  Len(Lons) * (la - 1) + lo

\* calculate_distance evaluated by the source's formula (R = 6371.0) on every
\* pair of grid points, in metres.  Rounding to metres keeps the order of the
\* floating-point results: the 22 distinct float values give 22 distinct
\* entries, and equal floats give equal entries.
HaversineMetres ==
    << <<0, 47640, 60238, 5993, 48008, 60525, 7105, 48158, 60644>>,
       <<47640, 0, 12598, 48008, 5993, 13949, 48158, 7105, 14461>>,
       <<60238, 12598, 0, 60525, 13949, 5993, 60644, 14461, 7105>>,
       <<5993, 48008, 60525, 0, 47624, 60218, 1112, 47636, 60226>>,
       <<48008, 5993, 13949, 47624, 0, 12594, 47636, 1112, 12642>>,
       <<60525, 13949, 5993, 60218, 12594, 0, 60226, 12642, 1112>>,
       <<7105, 48158, 60644, 1112, 47636, 60226, 0, 47622, 60214>>,
       <<48158, 7105, 14461, 47636, 1112, 12642, 47622, 0, 12593>>,
       <<60644, 14461, 7105, 60226, 12642, 1112, 60214, 12593, 0>> >>

calculate_distance(lat1, lon1, lat2, lon2) ==
    HaversineMetres[PointIndex(lat1, lon1)][PointIndex(lat2, lon2)]

\* Python's round(): the quotient p/q (q > 0) rounded to the nearest integer,
\* halves to the even neighbour.
Round(p, q) ==
    LET f == p \div q
        r == p % q
    IN  IF 2 * r < q THEN f
        ELSE IF 2 * r > q THEN f + 1
        ELSE IF f % 2 = 0 THEN f ELSE f + 1

\* -------------------------------------------------------------- sequences
\* All orderings of the positions 1..n, as sequences.
Orderings(n) ==
    {p \in [1..n -> 1..n] : \A a, b \in 1..n : a # b => p[a] # p[b]}

\* list.remove(x) on a list of references: drops the first element whose
\* dict compares equal (==) to x's; vals gives each reference's dict.
RemoveAllEqual(list, x, vals) ==
    SelectSeq(list, LAMBDA r : vals[r] # vals[x])

RemoveHead(list, x, vals) ==
    Tail(list)

RemoveFirst(list, x, vals) ==
    LET k == CHOOSE j \in 1..Len(list) :
                 /\ vals[list[j]] = vals[x]
                 /\ \A m \in 1..(j - 1) : vals[list[m]] # vals[x]
    IN  [j \in 1..(Len(list) - 1) |-> IF j < k THEN list[j] ELSE list[j + 1]]


\* ------------------------------------------------------------------ state
VARIABLES
    dustbins,       \* the registry, in dict order: <<[id, lat, lon, fill], ...>>
    truck,          \* the truck dict: [lat, lon], each None or <<number>>
    upc,            \* update_truck: "idle", or "lon" once line 469 has run
    udata,          \* update_truck: request.json, [lat, lon]; a field is <<>>
                    \* when the key is absent, <<v>> when present (v None when
                    \* float() rejects the value)
    uresp,          \* update_truck: status of its last response, 0 before any
    upre,           \* history: the truck dict's contents when the last
                    \* POST /api/truck began
    opc,            \* GET /api/optimize or a direct call: position in the code
    caller,         \* "handler": optimize_route runs; "direct": a call of
                    \* optimize_route_tsp with its own arguments
    objs,           \* the waypoint dicts: a reference is an index of objs
    lists,          \* the list objects, each a sequence of references
    remaining,      \* the list object the name `remaining` is bound to
    current,        \* 0: the truck_pos dict itself; k > 0: the dict objs[k]
    total_distance,
    idx,            \* min(): position in remaining of the next key to compute
    nearest,        \* min(): best reference so far; then the chosen one
    best_key,       \* min(): key of nearest
    lat_read,       \* the value of current["lat"] just read
    iters,          \* iterations of the while loop completed
    ret,            \* optimize_route_tsp's return value, None until it returns
    random_distance,
    resp,           \* the response of GET /api/optimize, [status |-> 0] before
    snap,           \* history: the truck dict's contents when the solver was called
    start_read,     \* history: the last (lat, lon) read through truck_pos for a
                    \* distance, <<>> before any
    bins_at_call    \* history: the caller's list when the solver was called

vars == <<dustbins, truck, upc, udata, uresp, upre, opc, caller, objs, lists,
          remaining, current, total_distance, idx, nearest, best_key, lat_read,
          iters, ret, random_distance, resp, snap, start_read, bins_at_call>>

updaterVars == <<upc, udata, uresp, upre>>
solverVars == <<objs, lists, remaining, current, total_distance, idx, nearest,
                best_key, lat_read, iters, ret, random_distance, snap, start_read,
                bins_at_call>>

\* ------------------------------------------------------ initial registries
\* dustbins = {"1": {... "lat": 19.2461, "lon": 83.4462, "fill": 0 ...}}
InitialDustbins ==
    << [id |-> 1, lat |-> Lats[1], lon |-> Lons[1], fill |-> 0] >>

\* truck = {"lat": None, "lon": None, "timestamp": None}
InitialTruck == [lat |-> None, lon |-> None]

NoData == [lat |-> <<>>, lon |-> <<>>]
NoLists == [bins |-> <<>>, clone |-> <<>>, route |-> <<>>, random_bins |-> <<>>]
NoResponse == [status |-> 0]

\* The locals of a request before it runs.
FreshLocals ==
    /\ objs = <<>>
    /\ lists = NoLists
    /\ remaining = "clone"
    /\ current = 0
    /\ total_distance = 0
    /\ idx = 1
    /\ nearest = 0
    /\ best_key = 0
    /\ lat_read = None
    /\ iters = 0
    /\ ret = None
    /\ random_distance = 0
    /\ resp = NoResponse
    /\ snap = InitialTruck
    /\ start_read = <<>>
    /\ bins_at_call = <<>>

\* The server after construction: registries as the module sets them, no
\* request in progress.
Init ==
    /\ dustbins = InitialDustbins
    /\ truck = InitialTruck
    /\ upc = "idle"
    /\ udata = NoData
    /\ uresp = 0
    /\ upre = InitialTruck
    /\ opc = "idle"
    /\ caller = "handler"
    /\ FreshLocals

\* --------------------------------------------------- POST /api/truck
\* Values a client sends for "lat" and "lon".
PostedLats == {Lats[2], Lats[3]}
PostedLons == {Lons[2], Lons[3]}

JsonField(S) == {<<>>, <<None>>} \cup {<<Some(x)>> : x \in S}

\* data.get(key, default)
DataGet(field, default) == IF field = <<>> THEN default ELSE field[1]

\* Line 469: truck["lat"] = float(data.get('lat', truck["lat"])); float(None)
\* raises and the handler answers 400.
update_truck_lat(data) ==
    /\ upc = "idle"
    /\ upre' = truck
    /\ LET v == DataGet(data.lat, truck.lat)
       IN  IF v = None
           THEN /\ uresp' = 400
                /\ UNCHANGED <<truck, upc, udata>>
           ELSE /\ truck' = [truck EXCEPT !.lat = v]
                /\ upc' = "lon"
                /\ udata' = data
                /\ UNCHANGED uresp
    /\ UNCHANGED <<dustbins, opc, caller, resp, solverVars>>

\* Lines 470-475: truck["lon"] = float(data.get('lon', truck["lon"])), then
\* the timestamp and the 200 response.
update_truck_lon ==
    /\ upc = "lon"
    /\ LET v == DataGet(udata.lon, truck.lon)
       IN  IF v = None
           THEN /\ uresp' = 400
                /\ UNCHANGED truck
           ELSE /\ truck' = [truck EXCEPT !.lon = v]
                /\ uresp' = 200
    /\ upc' = "idle"
    /\ udata' = NoData
    /\ UNCHANGED <<upre, dustbins, opc, caller, resp, solverVars>>

\* --------------------------------------------------- Arduino reader thread
SensorLevels == {49, 50}

\* Lines 232-234: dustbins["1"]["fill"] = fill_level
read_arduino_data(level) ==
    /\ \E k \in DOMAIN dustbins : dustbins[k].id = 1
    /\ dustbins' = [k \in DOMAIN dustbins |->
                      IF dustbins[k].id = 1
                      THEN [dustbins[k] EXCEPT !.fill = level]
                      ELSE dustbins[k]]
    /\ UNCHANGED <<truck, updaterVars, opc, caller, resp, solverVars>>

\* --------------------------------------------------- optimize_route_tsp
\* The dicts of a list object, in its order.
Dicts(list) == [k \in 1..Len(list) |-> objs[list[k]]]

\* current["lat"], current["lon"]: current is the caller's truck_pos dict
\* until the first waypoint is chosen, and that waypoint's own dict after.
CurrentLat == IF current = 0 THEN truck.lat ELSE Some(objs[current].lat)
CurrentLon == IF current = 0 THEN truck.lon ELSE Some(objs[current].lon)

\* remaining = bins[:]: the list object `remaining` names after the clone.
AliasOfBins(src) == src

CloneOfBins(src) == "clone"

\* min(): a later element replaces the best so far only with a smaller key.
SmallerOrEqual(key, best) == key <= best

Smaller(key, best) == key < best

\* total_distance += dist
OnlyLastLeg(total, dist) == dist

AddLeg(total, dist) == total + dist

\* return [], 0.0
EmptyRouteNoDistance == [order |-> <<>>, dist |-> 0 - 1]

EmptyRoute == [order |-> <<>>, dist |-> 0]

\* An exception inside the try block of optimize_route: the 500 response.
ExceptionResponse == [status |-> 500, error |-> "exception"]

\* Lines 188-194: the empty case, or the clone and the locals.
tsp_entry ==
    /\ opc = "tsp_entry"
    /\ snap' = truck
    /\ bins_at_call' = lists.bins
    /\ IF lists.bins = <<>>
       THEN /\ ret' = Some(EmptyRoute)
            /\ opc' = "tsp_return"
            /\ UNCHANGED <<lists, remaining, current, total_distance, idx>>
       ELSE /\ remaining' = CloneOfBins("bins")
            /\ lists' = [lists EXCEPT ![remaining'] = lists.bins,
                                      !.route = <<>>]
            /\ current' = 0
            /\ total_distance' = 0
            /\ idx' = 1
            /\ opc' = "key_lat"
            /\ UNCHANGED ret
    /\ UNCHANGED <<dustbins, truck, updaterVars, caller, objs, nearest,
                   best_key, lat_read, iters, random_distance, resp, start_read>>

\* Line 201, first argument: current["lat"] for the key of remaining[idx].
key_lat ==
    /\ opc = "key_lat"
    /\ lat_read' = CurrentLat
    /\ opc' = "key_lon"
    /\ UNCHANGED <<dustbins, truck, updaterVars, caller, objs, lists,
                   remaining, current, total_distance, idx, nearest, best_key,
                   iters, ret, random_distance, resp, snap, start_read,
                   bins_at_call>>

\* Lines 198-203: current["lon"], the key of remaining[idx], and min()'s
\* comparison with the best so far.  calculate_distance raises on None.
key_lon ==
    /\ opc = "key_lon"
    /\ LET lon == CurrentLon
           r == lists[remaining][idx]
       IN  IF lat_read = None \/ lon = None
           THEN /\ resp' = ExceptionResponse
                /\ opc' = "done"
                /\ UNCHANGED <<idx, nearest, best_key, start_read>>
           ELSE LET key == calculate_distance(lat_read[1], lon[1],
                                              objs[r].lat, objs[r].lon)
                    better == idx = 1 \/ Smaller(key, best_key)
                IN  /\ nearest' = IF better THEN r ELSE nearest
                    /\ best_key' = IF better THEN key ELSE best_key
                    /\ start_read' = IF current = 0
                                     THEN <<lat_read[1], lon[1]>>
                                     ELSE start_read
                    /\ IF idx < Len(lists[remaining])
                       THEN idx' = idx + 1 /\ opc' = "key_lat"
                       ELSE idx' = 1 /\ opc' = "dist_lat"
                    /\ UNCHANGED resp
    /\ UNCHANGED <<dustbins, truck, updaterVars, caller, objs, lists,
                   remaining, current, total_distance, lat_read, iters, ret,
                   random_distance, snap, bins_at_call>>

\* Line 207, first argument: current["lat"] for the leg to nearest.
dist_lat ==
    /\ opc = "dist_lat"
    /\ lat_read' = CurrentLat
    /\ opc' = "dist_lon"
    /\ UNCHANGED <<dustbins, truck, updaterVars, caller, objs, lists,
                   remaining, current, total_distance, idx, nearest, best_key,
                   iters, ret, random_distance, resp, snap, start_read,
                   bins_at_call>>

\* Lines 206-216: the leg to nearest, the running total, the append, the
\* removal, the move, and the loop test (the return when remaining is empty).
dist_lon ==
    /\ opc = "dist_lon"
    /\ LET lon == CurrentLon
       IN  IF lat_read = None \/ lon = None
           THEN /\ resp' = ExceptionResponse
                /\ opc' = "done"
                /\ UNCHANGED <<lists, current, total_distance, iters, ret,
                               start_read>>
           ELSE LET dist == calculate_distance(lat_read[1], lon[1],
                                               objs[nearest].lat,
                                               objs[nearest].lon)
                    rest == RemoveFirst(lists[remaining], nearest, objs)
                IN  /\ total_distance' = AddLeg(total_distance, dist)
                    /\ lists' = [[lists EXCEPT !.route = Append(@, nearest)]
                                    EXCEPT ![remaining] = rest]
                    /\ current' = nearest
                    /\ iters' = iters + 1
                    /\ start_read' = IF current = 0
                                     THEN <<lat_read[1], lon[1]>>
                                     ELSE start_read
                    /\ IF lists'[remaining] = <<>>
                       THEN /\ ret' = Some([order |-> lists'.route,
                                            dist |-> total_distance'])
                            /\ opc' = "tsp_return"
                       ELSE /\ opc' = "key_lat"
                            /\ UNCHANGED ret
                    /\ UNCHANGED resp
    /\ UNCHANGED <<dustbins, truck, updaterVars, caller, objs, remaining, idx,
                   nearest, best_key, lat_read, random_distance, snap,
                   bins_at_call>>

\* The return to the caller: a direct call is over; optimize_route goes on
\* at line 502 with optimal_route, optimal_distance = ret.
tsp_return ==
    /\ opc = "tsp_return"
    /\ opc' = IF caller = "direct" THEN "done" ELSE "baseline"
    /\ UNCHANGED <<dustbins, truck, updaterVars, caller, resp, solverVars>>

\* --------------------------------------------------- GET /api/optimize
\* truck["lat"] is None, truck["lon"] is None
NeverUnset(v) == FALSE

IsUnset(v) == v = None

\* Lines 482-484: the 400 response of the GPS check.
GpsErrorResponse == [status |-> 400, error |-> "Truck GPS not received yet"]

\* Lines 493-497: the response when no bin is at or above the threshold.
NoBinsResponse ==
    [status |-> 200, message |-> "No bins need collection",
     optimal_distance |-> 0, route |-> <<>>]

\* A request arrives; its locals are fresh.
optimize_route_request ==
    /\ opc \in {"idle", "done"}
    /\ opc' = "check_lat"
    /\ caller' = "handler"
    /\ objs' = <<>>
    /\ lists' = NoLists
    /\ remaining' = "clone"
    /\ current' = 0
    /\ total_distance' = 0
    /\ idx' = 1
    /\ nearest' = 0
    /\ best_key' = 0
    /\ lat_read' = None
    /\ iters' = 0
    /\ ret' = None
    /\ random_distance' = 0
    /\ resp' = NoResponse
    /\ snap' = InitialTruck
    /\ start_read' = <<>>
    /\ bins_at_call' = <<>>
    /\ UNCHANGED <<dustbins, truck, updaterVars>>

\* Line 481, left operand: truck["lat"] is None
check_lat ==
    /\ opc = "check_lat"
    /\ IF IsUnset(truck.lat)
       THEN resp' = GpsErrorResponse /\ opc' = "done"
       ELSE opc' = "check_lon" /\ UNCHANGED resp
    /\ UNCHANGED <<dustbins, truck, updaterVars, caller, solverVars>>

\* Line 481, right operand: truck["lon"] is None
check_lon ==
    /\ opc = "check_lon"
    /\ IF IsUnset(truck.lon)
       THEN resp' = GpsErrorResponse /\ opc' = "done"
       ELSE opc' = "collect" /\ UNCHANGED resp
    /\ UNCHANGED <<dustbins, truck, updaterVars, caller, solverVars>>

\* Lines 487-490: the dicts built for the bins with fill >= 50, in the
\* registry's order.
BinsToCollect(registry) ==
    SelectSeq(registry, LAMBDA b : b.fill >= CollectThreshold)

\* Lines 487-500: bins_to_collect, the empty answer, or the call of
\* optimize_route_tsp(truck, bins_to_collect).
collect ==
    /\ opc = "collect"
    /\ objs' = BinsToCollect(dustbins)
    /\ lists' = [lists EXCEPT !.bins = [k \in 1..Len(objs') |-> k]]
    /\ IF objs' = <<>>
       THEN resp' = NoBinsResponse /\ opc' = "done"
       ELSE opc' = "tsp_entry" /\ UNCHANGED resp
    /\ UNCHANGED <<dustbins, truck, updaterVars, caller, remaining, current,
                   total_distance, idx, nearest, best_key, lat_read, iters,
                   ret, random_distance, snap, start_read, bins_at_call>>

RECURSIVE ConsecutiveFrom(_, _, _)
\* Lines 509-513 from index i on: the legs random_bins[i] -> random_bins[i+1].
ConsecutiveFrom(list, vals, i) ==
    IF i >= Len(list) THEN 0
    ELSE calculate_distance(vals[list[i]].lat, vals[list[i]].lon,
                            vals[list[i + 1]].lat, vals[list[i + 1]].lon)
         + ConsecutiveFrom(list, vals, i + 1)

\* Lines 507-513: random_distance over the shuffled list.
RandomDistanceFromTruck(list, vals) ==
    IF list = <<>> THEN 0
    ELSE calculate_distance(truck.lat[1], truck.lon[1],
                            vals[list[1]].lat, vals[list[1]].lon)
         + ConsecutiveFrom(list, vals, 1)

RandomDistance(list, vals) ==
    IF Len(list) > 1 THEN ConsecutiveFrom(list, vals, 1) ELSE 0

\* Line 518: savings, rounded as line 526 reports it.
SavingsUnguarded(random, optimal) ==
    Round((random - optimal) * CostPerFuel, 1000 * FuelRate)

Savings(random, optimal) ==
    IF random > 0
    THEN Round((random - optimal) * CostPerFuel, 1000 * FuelRate)
    ELSE 0

\* Line 519: efficiency, rounded as line 527 reports it.
Efficiency(random, optimal) ==
    IF random > 0 THEN Round((random - optimal) * 100, random) ELSE 0

\* Lines 521-529: distances to 2 decimals of a kilometre (units of 10 m),
\* fuel to 2 decimals, cost, savings and efficiency to whole numbers.
ResultResponse(route, optimal, random) ==
    [status |-> 200,
     optimal_distance |-> Round(optimal, 10),
     random_distance |-> Round(random, 10),
     optimal_fuel |-> Round(optimal, 10 * FuelRate),
     optimal_cost |-> Round(optimal * CostPerFuel, 1000 * FuelRate),
     savings |-> Savings(random, optimal),
     efficiency_gain |-> Efficiency(random, optimal),
     route |-> [k \in 1..Len(route) |-> objs[route[k]].id]]

\* Lines 502-529: the shuffled copy, its distance, the metrics, the response.
baseline ==
    /\ opc = "baseline"
    /\ \E p \in Orderings(Len(lists.bins)) :
         lists' = [lists EXCEPT !.random_bins =
                      [k \in 1..Len(lists.bins) |-> lists.bins[p[k]]]]
    /\ random_distance' = RandomDistance(lists'.random_bins, objs)
    /\ resp' = ResultResponse(ret[1].order, ret[1].dist, random_distance')
    /\ opc' = "done"
    /\ UNCHANGED <<dustbins, truck, updaterVars, caller, objs, remaining,
                   current, total_distance, idx, nearest, best_key, lat_read,
                   iters, ret, snap, start_read, bins_at_call>>

\* ---------------------------------------------------------- specifications
TruckData == [lat : JsonField(PostedLats), lon : JsonField(PostedLons)]

\* The server: the GPS handler and the sensor thread run beside the route
\* request (Flask serves each request on its own thread).
Next ==
    \/ \E data \in TruckData : update_truck_lat(data)
    \/ update_truck_lon
    \/ \E level \in SensorLevels : read_arduino_data(level)
    \/ optimize_route_request
    \/ check_lat
    \/ check_lon
    \/ collect
    \/ tsp_entry
    \/ key_lat
    \/ key_lon
    \/ dist_lat
    \/ dist_lon
    \/ tsp_return
    \/ baseline

Spec == Init /\ [][Next]_vars

\* The engine alone, on inputs drawn from bounded sets: either a direct call
\* optimize_route_tsp(truck_pos, bins), or one GET /api/optimize over a given
\* registry, with no other thread running.
DiagonalPoints == 1..Len(Lats)

WaypointDicts ==
    {[id |-> i, lat |-> Lats[k], lon |-> Lons[k], fill |-> CollectThreshold] :
        i \in 1..2, k \in DiagonalPoints}

SeqsUpTo(S, n) == UNION {[1..k -> S] : k \in 0..n}

InitDirect ==
    /\ dustbins = <<>>
    /\ \E k \in DiagonalPoints :
         truck = [lat |-> Some(Lats[k]), lon |-> Some(Lons[k])]
    /\ upc = "idle" /\ udata = NoData /\ uresp = 0 /\ upre = InitialTruck
    /\ opc = "tsp_entry"
    /\ caller = "direct"
    /\ objs \in SeqsUpTo(WaypointDicts, MaxBins)
    /\ lists = [NoLists EXCEPT !.bins = [k \in 1..Len(objs) |-> k]]
    /\ remaining = "clone" /\ current = 0 /\ total_distance = 0 /\ idx = 1
    /\ nearest = 0 /\ best_key = 0 /\ lat_read = None /\ iters = 0
    /\ ret = None /\ random_distance = 0 /\ resp = NoResponse
    /\ snap = InitialTruck /\ start_read = <<>> /\ bins_at_call = <<>>

InitHandler ==
    /\ \E place \in SeqsUpTo(DiagonalPoints \X {0, CollectThreshold}, MaxBins) :
         dustbins = [k \in 1..Len(place) |->
                        [id |-> k, lat |-> Lats[place[k][1]],
                         lon |-> Lons[place[k][1]], fill |-> place[k][2]]]
    /\ truck \in [lat : {None, Some(Lats[2])},
                  lon : {None, Some(Lons[2]), Some(Lons[3])}]
    /\ upc = "idle" /\ udata = NoData /\ uresp = 0 /\ upre = InitialTruck
    /\ opc = "check_lat"
    /\ caller = "handler"
    /\ FreshLocals

InitCore == InitDirect \/ InitHandler

NextCore ==
    \/ check_lat
    \/ check_lon
    \/ collect
    \/ tsp_entry
    \/ key_lat
    \/ key_lon
    \/ dist_lat
    \/ dist_lon
    \/ tsp_return
    \/ baseline

SpecCore == InitCore /\ [][NextCore]_vars

\* The engine under the scheduling a running request gets: its next step is
\* eventually taken.
FairSpecCore == SpecCore /\ WF_vars(NextCore)

\* ------------------------------------------------------------- properties
\* How often x occurs in the sequence.
Count(seq, x) == Cardinality({k \in 1..Len(seq) : seq[k] = x})

\* The two sequences hold the same elements, each as often.
SameBag(a, b) ==
    /\ Len(a) = Len(b)
    /\ \A k \in 1..Len(a) : Count(a, a[k]) = Count(b, a[k])

RECURSIVE PathLength(_)
\* The sum of the distances between consecutive points of the sequence.
PathLength(points) ==
    IF Len(points) < 2 THEN 0
    ELSE calculate_distance(points[1].lat, points[1].lon,
                            points[2].lat, points[2].lon)
         + PathLength(Tail(points))

\* The start position the solver was called with.
StartPoint == [lat |-> snap.lat[1], lon |-> snap.lon[1]]

\* The distance from a position to the dict a reference names.
DistanceTo(from, r) == calculate_distance(from.lat, from.lon, objs[r].lat, objs[r].lon)

\* The position in pool of the first dict at minimum distance from `from`.
FirstNearest(from, pool) ==
    CHOOSE k \in 1..Len(pool) :
        /\ \A m \in 1..Len(pool) : DistanceTo(from, pool[k]) <= DistanceTo(from, pool[m])
        /\ \A m \in 1..(k - 1) : DistanceTo(from, pool[m]) > DistanceTo(from, pool[k])

Without(pool, k) ==
    [j \in 1..(Len(pool) - 1) |-> IF j < k THEN pool[j] ELSE pool[j + 1]]

RECURSIVE NearestNeighbourOrder(_, _)
\* The order that visiting, again and again, the first nearest waypoint of
\* the pool gives: a function of the start and of the waypoint sequence.
NearestNeighbourOrder(from, pool) ==
    IF pool = <<>> THEN <<>>
    ELSE LET k == FirstNearest(from, pool)
         IN  <<pool[k]>> \o NearestNeighbourOrder(objs[pool[k]], Without(pool, k))

InLoop == opc \in {"key_lat", "key_lon", "dist_lat", "dist_lon"}
Returned == ret # None

\* C1: the order optimize_route_tsp returns is a permutation of the input
\* list: every input waypoint is in it exactly as often as in the input and
\* nothing else is; while the loop runs, the route so far and the remaining
\* pool together hold exactly the input's waypoints.
C1_RouteIsPermutation ==
    /\ InLoop => SameBag(Dicts(lists.route \o lists[remaining]), Dicts(bins_at_call))
    /\ Returned => SameBag(Dicts(ret[1].order), Dicts(bins_at_call))

C1_Witness ==
    /\ Returned
    /\ Len(bins_at_call) = 3
    /\ ret[1].order # bins_at_call
    /\ \E a, b \in 1..3 : a # b /\ objs[a] = objs[b]

\* C2: for a non-empty waypoint list the returned total distance is the
\* distance from the start position to the first waypoint of the returned
\* order plus the distances between consecutive waypoints of that order.
C2_TotalIsPathLength ==
    (Returned /\ bins_at_call # <<>>) =>
        ret[1].dist = PathLength(<<StartPoint>> \o Dicts(ret[1].order))

C2_Witness ==
    /\ Returned
    /\ Len(ret[1].order) = 3
    /\ ret[1].dist > DistanceTo(StartPoint, ret[1].order[1])
    /\ DistanceTo(StartPoint, ret[1].order[1]) > 0

\* The waypoint a loop iteration appends is the first one, in the remaining
\* pool's order, at minimum distance from the current position: the start
\* position while the route is empty, the last appended waypoint after.
GreedyStep ==
    Len(lists'.route) = Len(lists.route) + 1 =>
        LET pool == lists[remaining]
            from == IF lists.route = <<>> THEN StartPoint
                    ELSE objs[lists.route[Len(lists.route)]]
        IN  lists'.route[Len(lists'.route)] = pool[FirstNearest(from, pool)]

\* C3: every step appends the waypoint at minimum distance from the current
\* position among those remaining, the first such in the pool's order on a
\* tie; so the returned order and distance are a function of the start and
\* the waypoint sequence alone.
C3_GreedyFirstMinimum ==
    /\ [][GreedyStep]_vars
    /\ [](Returned =>
            /\ ret[1].order = NearestNeighbourOrder(StartPoint, bins_at_call)
            /\ ret[1].dist = PathLength(<<StartPoint>> \o
                   Dicts(NearestNeighbourOrder(StartPoint, bins_at_call))))

C3_Witness ==
    /\ Returned
    /\ Len(ret[1].order) = 3
    /\ ret[1].order # bins_at_call
    /\ \E a, b \in 1..3 :
          /\ a < b
          /\ objs[a] # objs[b]
          /\ DistanceTo(StartPoint, a) = DistanceTo(StartPoint, b)
          /\ ret[1].order[1] = a

\* The guard of optimize_route reads a coordinate that is None.
GuardReadsUnset ==
    \/ opc = "check_lat" /\ truck.lat = None
    \/ opc = "check_lon" /\ truck.lon = None

\* C4: a route evaluation whose GPS check finds the stored latitude or
\* longitude unset ends in the position-unavailable error with no route and
\* no distance computed; no distance is ever computed from an unset
\* coordinate or from a value put in its place.
C4_UnsetPositionIsError ==
    /\ [][(GuardReadsUnset /\ opc' # opc) =>
            /\ opc' = "done"
            /\ resp' = GpsErrorResponse
            /\ ret' = None
            /\ lists'.route = <<>>
            /\ total_distance' = 0
            /\ start_read' = <<>>]_vars
    /\ [](/\ (InLoop \/ Returned) => (snap.lat # None /\ snap.lon # None)
          /\ start_read # <<>> =>
                (start_read[1] \in LatSet /\ start_read[2] \in LonSet)
          /\ resp.status # 500
          /\ resp.status = 400 => (ret = None /\ start_read = <<>>))

C4_Witness ==
    /\ opc = "done"
    /\ resp = GpsErrorResponse
    /\ truck.lat # None
    /\ truck.lon = None
    /\ BinsToCollect(dustbins) # <<>>

\* C5: every distance a route computation takes from the truck position
\* uses the position stored when the computation was called, whatever
\* updates of the truck or of the bins run meanwhile.
C5_SnapshotAtCallTime ==
    start_read # <<>> => start_read = <<snap.lat[1], snap.lon[1]>>

\* C6: optimize_route_tsp leaves the caller's waypoint list as it was at the
\* call: the same elements in the same order, during and after the call.
C6_InputListUnchanged ==
    (InLoop \/ Returned) => lists.bins = bins_at_call

C6_Witness ==
    /\ Returned
    /\ Len(bins_at_call) = 3
    /\ lists.bins = bins_at_call
    /\ lists.clone = <<>>
    /\ Len(lists.route) = 3

HasResult == resp.status = 200 /\ "savings" \in DOMAIN resp

\* C8: the baseline distance is the sum of the distances between
\* consecutive waypoints of a permutation of the eligible waypoints, without
\* the leg from the start position, and 0 for fewer than 2 waypoints.
C8_BaselineWaypointsOnly ==
    HasResult =>
        /\ SameBag(lists.random_bins, lists.bins)
        /\ lists.bins = [k \in 1..Len(objs) |-> k]
        /\ random_distance = PathLength(Dicts(lists.random_bins))
        /\ Len(lists.bins) < 2 => random_distance = 0
        /\ resp.random_distance = Round(random_distance, 10)

C8_Witness ==
    /\ HasResult
    /\ Len(lists.random_bins) = 3
    /\ lists.random_bins # lists.bins
    /\ lists.random_bins # ret[1].order
    /\ random_distance > 0
    /\ DistanceTo(StartPoint, lists.random_bins[1]) > 0

\* C9: when the baseline distance is 0, as it is with exactly one eligible
\* waypoint, the reported savings and efficiency gain are 0 whatever the
\* optimal distance is.
C9_ZeroBaselineZeroMetrics ==
    HasResult =>
        /\ Len(lists.bins) = 1 => random_distance = 0
        /\ random_distance = 0 => (resp.savings = 0 /\ resp.efficiency_gain = 0)

C9_Witness ==
    /\ HasResult
    /\ Len(lists.bins) = 1
    /\ random_distance = 0
    /\ ret[1].dist > 0
    /\ resp.savings = 0
    /\ resp.efficiency_gain = 0

\* C10: a call of optimize_route_tsp returns; each iteration of its loop
\* takes exactly one waypoint out of the remaining pool, and at the return
\* the loop has run once per input waypoint and the pool is empty.
C10_LoopRunsOncePerWaypoint ==
    /\ [](InLoop => iters + Len(lists[remaining]) = Len(bins_at_call))
    /\ [](Returned => (iters = Len(bins_at_call) /\ lists[remaining] = <<>>))
    /\ [][iters' = iters + 1 =>
             Len(lists'[remaining']) = Len(lists[remaining]) - 1]_vars
    /\ [][lists'[remaining'] # lists[remaining] =>
             (iters' = iters + 1 \/ opc = "tsp_entry")]_vars
    /\ [](opc = "tsp_entry" => <>Returned)

C10_Witness ==
    /\ Returned
    /\ iters = 3
    /\ Len(bins_at_call) = 3
    /\ objs[1] = objs[2]
    /\ lists[remaining] = <<>>

\* C11: a POST /api/truck that has answered with an error has left the
\* stored position as it was when the request began, and between updates the
\* stored latitude and longitude are both unset or both set.
C11_FailedUpdateLeavesPosition ==
    upc = "idle" =>
        /\ uresp = 400 => truck = upre
        /\ truck.lat = None <=> truck.lon = None

=============================================================================
